---- MODULE Spec2Model ----
(***************************************************************************)
(* The incremental Vespa indexing pipeline of navigator-search-indexer     *)
(* (src/src/index/vespa_.py): the document generator, the reconciliation   *)
(* of stray passages, and the batch ingestor with its retry policy, run    *)
(* against a model of the search backend (feed, query, delete).            *)
(*                                                                         *)
(* One run of populate_vespa is one pass of the machine from StartRun to   *)
(* pc = "done" or pc = "aborted"; the backend's content (index) survives   *)
(* from run to run, everything else is local to a run.                     *)
(***************************************************************************)
EXTENDS Integers, Sequences, FiniteSets, TLC

(***************************************************************************)
(* Bounds of the model.                                                    *)
(***************************************************************************)
\* text blocks of the longest version of a document, before filtering
MaxBlocks == 4
\* runs of populate_vespa explored one after the other
MaxRuns == 2
\* config.VESPA_DOCUMENT_BATCH_SIZE (src/src/config.py:64, default 2000),
\* scaled down so that a document spans several flushes
VESPA_DOCUMENT_BATCH_SIZE == 2
\* the page size of get_existing_passage_ids (src/src/index/vespa_.py:207,
\* 5000 in the source), scaled down so that a document spans several pages
max_hits == 2
\* longest exclusion list, and longest list of passage IDs, given to a call
MaxLen == 3
\* most text blocks of a document given to a call of the filter
MaxCallBlocks == 2
\* largest number of matches the backend reports to a query examined on its own
MaxTotal == 5

(***************************************************************************)
(* Program constants.                                                      *)
(***************************************************************************)
\* stop_after_attempt(10) of the retry policy wrapped around _batch_ingest
stop_after_attempt == 10

SEARCH_WEIGHTS_SCHEMA == "search_weights"
FAMILY_DOCUMENT_SCHEMA == "family_document"
DOCUMENT_PASSAGE_SCHEMA == "document_passage"
\* the schemas with the passages first
PassagesFirst ==
    <<DOCUMENT_PASSAGE_SCHEMA, FAMILY_DOCUMENT_SCHEMA, SEARCH_WEIGHTS_SCHEMA>>
_SCHEMAS_TO_PROCESS ==
    <<SEARCH_WEIGHTS_SCHEMA, FAMILY_DOCUMENT_SCHEMA, DOCUMENT_PASSAGE_SCHEMA>>
\* record IDs are tuples: the ID string split at its dots
search_weights_id == <<"default_weights">>
BLOCKS_TO_FILTER == <<"Table", "Figure">>

\* the documents of the corpus (document_id = document_metadata.import_id)
Docs == {"A", "B"}
NoRec == [absent |-> TRUE]
NoError == [kind |-> "none"]

(***************************************************************************)
(* Helpers on sequences.                                                   *)
(***************************************************************************)
Range(s) == {s[i] : i \in 1..Len(s)}
Min(a, b) == IF a < b THEN a ELSE b
\* all orderings of a finite set, as sequences without repetition
Orders(S) ==
    {s \in [1..Cardinality(S) -> S] : \A i, j \in 1..Cardinality(S) : s[i] = s[j] => i = j}

(***************************************************************************)
(* The parsed documents.  A version of document d is the prefix of length  *)
(* `limit` of d's block list (the way the integration test shortens a      *)
(* document) with an embedding matrix of `rows` rows.                      *)
(***************************************************************************)
\* the raw type label of the j-th block of document d
BlockType(d, j) ==
    IF d = "A" THEN (IF j = 1 THEN "table" ELSE "Text")
    ELSE (IF j % 2 = 1 THEN "Figure" ELSE "Text")

\* str.title() on the labels that occur
Title(label) ==
    CASE label = "table" -> "Table"
      [] label = "TableCell" -> "Tablecell"
      [] OTHER -> label

\* the text blocks of version `limit` of document d, in document order
get_text_blocks(d, limit) ==
    [j \in 1..limit |-> [id |-> j, type |-> BlockType(d, j), coords |-> "unflipped"]]

\* the block list with the coordinates of every block flipped vertically
vertically_flip_text_block_coords(blocks) ==
    [j \in 1..Len(blocks) |-> [blocks[j] EXCEPT !.coords = "flipped"]]

\* a generator that gives up the blocks of a document it cannot flip
NoBlocksOnFlipError(blocks, flip_raises) ==
    IF flip_raises THEN <<>> ELSE vertically_flip_text_block_coords(blocks)

\* the text blocks the generator pairs with the embeddings: the flipped
\* blocks, or the blocks as they are when the flip raises VerticalFlipError
FlippedOrUnflipped(blocks, flip_raises) ==
    IF flip_raises THEN blocks ELSE vertically_flip_text_block_coords(blocks)

\* a filter that keeps every block
KeepAllBlocks(blocks, remove_block_types) == blocks

\* the blocks whose normalized type label is not in the exclusion list
filter_blocks(blocks, remove_block_types) ==
    SelectSeq(blocks, LAMBDA b : Title(b.type) \notin Range(remove_block_types))

\* the embedding matrix read from the .npy file: row r holds the value r
\* (row 0 is the description embedding)
read_npy_file(rows) == [r \in 1..rows |-> r - 1]

\* the versions of document d the generator may read.  Document "A" changes
\* from run to run: any prefix of its block list, with a matrix of one row per
\* filtered block plus the description row or (a matrix cut to as many rows as
\* the document has blocks) one row less.  Document "B" never changes: two
\* blocks, and a matrix with the description row and a row for each of them.
Versions(d) ==
    {v \in [limit : 0..MaxBlocks, rows : 1..(MaxBlocks + 1)] :
        LET nf == Len(filter_blocks(get_text_blocks(d, v.limit), BLOCKS_TO_FILTER))
        IN  IF d = "B" THEN v.limit = 2 /\ v.rows = v.limit + 1
            ELSE v.rows = nf + 1 \/ (nf >= 1 /\ v.rows = nf)}

(***************************************************************************)
(* Record builders.                                                        *)
(***************************************************************************)
\* the weights of the source (2.5, 2.0, 1.0) times ten, to stay in the integers
search_weights == [name_weight |-> 25, description_weight |-> 20, passage_weight |-> 10]

build_vespa_family_document(d, embeddings, search_weights_ref) ==
    [search_weights_ref |-> search_weights_ref,
     document_import_id |-> d,
     family_description_embedding |-> embeddings[1]]

\* a passage that names document A as its family, whatever its document
PassageOfDocumentA(family_document_id, search_weights_ref, text_block, embedding) ==
    [family_document_ref |-> "A",
     search_weights_ref |-> search_weights_ref,
     text_block_id |-> text_block.id,
     text_block_coords |-> text_block.coords,
     text_embedding |-> embedding]

build_vespa_document_passage(family_document_id, search_weights_ref, text_block, embedding) ==
    [family_document_ref |-> family_document_id,
     search_weights_ref |-> search_weights_ref,
     text_block_id |-> text_block.id,
     text_block_coords |-> text_block.coords,
     text_embedding |-> embedding]

\* passage IDs numbered from one
OneBasedId(d, k) == <<d, k + 1>>

\* the passage ID "{document_id}.{document_passage_idx}"
PassageId(d, k) == <<d, k>>
PassageIds == {PassageId(d, k) : d \in Docs, k \in 0..(MaxBlocks - 1)}

(***************************************************************************)
(* State.                                                                  *)
(***************************************************************************)
VARIABLES
    index,        \* the backend: [sw, fam, psg], each id mapped to its fields or NoRec
    hit_cap,      \* the most hits the backend returns for one query call
    corpus,       \* the documents that exist in the input directory
    run_limit,    \* how many runs of the indexer are followed
    flip_fails,   \* the documents whose coordinate flip raises VerticalFlipError
    config,       \* the backend settings of src.config
    call,         \* a call of one of the pure functions, examined on its own
    run,          \* number of runs of populate_vespa started so far
    pc,           \* where the current run stands
    resume,       \* where the generator resumes after a flush inside the loop
    paths,        \* the documents of the current run, in input order
    path_idx,     \* how many of them the generator has read
    task,         \* the document being generated: [id]
    text_blocks,  \* its filtered text blocks
    embeddings,   \* its embedding matrix
    existing_doc_passage_ids,  \* the answer of get_existing_passage_ids, as a set
    new_passage_ids,           \* the passage IDs generated for it so far
    stray_ids,    \* the stray IDs remove_ids has still to delete
    to_process,   \* the per-schema buffers of populate_vespa
    attempt,      \* failed attempts of the flush in progress
    last_error,   \* the exception that ended the last failed attempt or delete
    last_responses, \* the unsuccessful responses of the last flush attempt: id -> body
    yielded,      \* every tuple the generator has yielded in this run
    sent,         \* every record handed to a call of _batch_ingest in this run
    deleted,      \* the passage IDs deleted in this run
    delete_failed, \* whether a delete of this run failed
    inputs,       \* the version of each document read in this run
    history,      \* one entry per finished run: how it ended, its input, the index it left
    writers       \* runs of populate_vespa that work on the index at the same time

vars == <<index, hit_cap, corpus, run_limit, flip_fails, config, call, run, pc, resume, paths, path_idx, task, text_blocks,
          embeddings, existing_doc_passage_ids, new_passage_ids, stray_ids,
          to_process, attempt, last_error, last_responses, yielded, sent,
          deleted, delete_failed, inputs, history, writers>>

env == <<hit_cap, corpus, run_limit, flip_fails, config, call, writers>>

run_locals == <<paths, path_idx, task, text_blocks, embeddings,
                existing_doc_passage_ids, new_passage_ids, stray_ids>>

EmptyIndex ==
    [sw |-> NoRec, fam |-> [d \in Docs |-> NoRec], psg |-> [p \in PassageIds |-> NoRec]]
EmptyBuffers == [s \in Range(_SCHEMAS_TO_PROCESS) |-> <<>>]
NoTask == [id |-> "none"]

(***************************************************************************)
(* The backend.                                                            *)
(***************************************************************************)
\* the IDs of all the passages in the index, whatever their family
EveryIndexedPassageId(idx, d) == {p \in PassageIds : idx.psg[p] # NoRec}

\* the IDs of the passages in the index that reference family document d
IndexedPassageIds(idx, d) ==
    {p \in PassageIds : idx.psg[p] # NoRec /\ idx.psg[p].family_document_ref = d}

\* one page of a query: at most `hits` hits, and at most `cap`, from `offset`
QueryPage(matches, cap, hits, offset) ==
    SubSeq(matches, offset + 1, Min(Len(matches), offset + Min(hits, cap)))

\* an upsert of one record
Feed(idx, schema, rec) ==
    IF schema = SEARCH_WEIGHTS_SCHEMA THEN [idx EXCEPT !.sw = rec.fields]
    ELSE IF schema = FAMILY_DOCUMENT_SCHEMA THEN [idx EXCEPT !.fam[rec.id[1]] = rec.fields]
    ELSE [idx EXCEPT !.psg[rec.id] = rec.fields]

RECURSIVE FeedAll(_, _, _)
FeedAll(idx, schema, recs) ==
    IF recs = <<>> THEN idx
    ELSE FeedAll(Feed(idx, schema, Head(recs)), schema, Tail(recs))

\* the records of `recs` whose position is in W
Pick(recs, W) == SelectSeq(recs, LAMBDA r : r.id \in W)

\* a delete that removes nothing
KeepData(idx, id) == idx

\* the backend's delete of one passage
delete_data(idx, id) == [idx EXCEPT !.psg[id] = NoRec]

(***************************************************************************)
(* Reconciliation.                                                         *)
(***************************************************************************)
\* a query that never asks for another page
NeverMore(hits, offset, number_documents_retrieved) == FALSE

\* the test after a page: the hits received and the offset fall short of the
\* total the backend reports
MoreToGo(hits, offset, number_documents_retrieved) ==
    Len(hits) + offset < number_documents_retrieved

\* a query that stops after its first page
FirstPageOnly(matches, cap, offset) == QueryPage(matches, cap, max_hits, offset)

\* get_existing_passage_ids: the hits of the page at `offset`, then, while the
\* hits received plus the offset fall short of the total, the page max_hits on
RECURSIVE get_existing_passage_ids(_, _, _)
get_existing_passage_ids(matches, cap, offset) ==
    LET hits == QueryPage(matches, cap, max_hits, offset)
    IN  IF MoreToGo(hits, offset, Len(matches))
        THEN hits \o get_existing_passage_ids(matches, cap, offset + max_hits)
        ELSE hits

\* a reconciliation that finds no strays
NoStrays(existing, new) == {}

\* a reconciliation that takes every indexed passage for a stray
AllExistingStray(existing, new) == existing

\* the IDs that are in one of the lists only
InOneListOnly(existing, new) ==
    (existing \ Range(new)) \cup (Range(new) \ existing)

determine_stray_ids(existing, new) == existing \ Range(new)

(***************************************************************************)
(* The batch ingestor.                                                     *)
(***************************************************************************)
Ids(recs) == {recs[i].id : i \in 1..Len(recs)}

\* the backend's response to the feed of record `id`: rejected when id is in F
Response(id, F) ==
    [is_successful |-> id \notin F,
     json |-> IF id \in F THEN <<"rejected", id>> ELSE <<"ok", id>>]

\* a feed callback that inspects nothing
IgnoreFeedError(response, id) == NoError

\* the feed callback: the exception it raises, or NoError
_handle_feed_error(response, id) ==
    IF ~response.is_successful
    THEN [kind |-> "VespaIndexError", id |-> id, body |-> response.json]
    ELSE NoError

\* the exceptions the callbacks raise during feed_iterable of `recs`
FeedErrors(recs, F) ==
    {_handle_feed_error(Response(id, F), id) : id \in Ids(recs)} \ {NoError}

\* a retry policy that allows one attempt more
RetryStopsLate(failed) == failed >= stop_after_attempt + 1

\* a policy without retry
StopsAtFirstFailure(failed) == failed >= 1

\* the retry policy: TRUE when no further attempt follows `failed` failed ones
RetryStops(failed) == failed >= stop_after_attempt

\* populate_vespa flushes when the passage buffer has reached the batch size
ShouldFlush(tp) ==
    Len(tp[DOCUMENT_PASSAGE_SCHEMA]) >= config.VESPA_DOCUMENT_BATCH_SIZE

\* buffers that a flush leaves as they are
KeptBuffers(tp) == tp

\* the buffers after a flush inside the loop: to_process.clear()
ClearedBuffers(tp) == EmptyBuffers

\* the records a call of _batch_ingest is handed, schema by schema
Batch(tp) ==
    LET tag(s) == [i \in 1..Len(tp[s]) |-> [schema |-> s, id |-> tp[s][i].id]]
    IN  tag(SEARCH_WEIGHTS_SCHEMA) \o tag(FAMILY_DOCUMENT_SCHEMA) \o tag(DOCUMENT_PASSAGE_SCHEMA)

\* a feed of the passages alone
FeedPassagesOnly(idx, tp, i) ==
    FeedAll(idx, DOCUMENT_PASSAGE_SCHEMA, tp[DOCUMENT_PASSAGE_SCHEMA])

\* the index after schemas i..3 of the buffers have been fed without rejection
RECURSIVE FeedFrom(_, _, _)
FeedFrom(idx, tp, i) ==
    IF i > Len(_SCHEMAS_TO_PROCESS) THEN idx
    ELSE FeedFrom(FeedAll(idx, _SCHEMAS_TO_PROCESS[i], tp[_SCHEMAS_TO_PROCESS[i]]), tp, i + 1)

\* the index after schemas 1..i-1 of the buffers have been fed without rejection
RECURSIVE FeedBefore(_, _, _)
FeedBefore(idx, tp, i) ==
    IF i <= 1 THEN idx
    ELSE FeedAll(FeedBefore(idx, tp, i - 1), _SCHEMAS_TO_PROCESS[i - 1], tp[_SCHEMAS_TO_PROCESS[i - 1]])

(***************************************************************************)
(* populate_vespa and get_document_generator, step by step.                *)
(***************************************************************************)
PathChoices(docs) == UNION {Orders(S) : S \in SUBSET docs}

\* settings with which _get_vespa_instance connects
ValidConfig ==
    [VESPA_INSTANCE_URL |-> "set", DEVELOPMENT_MODE |-> FALSE,
     VESPA_KEY_LOCATION |-> "file", VESPA_CERT_LOCATION |-> "file",
     VESPA_DOCUMENT_BATCH_SIZE |-> VESPA_DOCUMENT_BATCH_SIZE]

\* the same with a batch of one passage
SmallBatchConfig == [ValidConfig EXCEPT !.VESPA_DOCUMENT_BATCH_SIZE = 1]

\* the values a setting takes: an endpoint is unset, not the address of a
\* backend, or the backend's; a key or certificate location is unset, a path
\* that does not exist, an existing directory, or an existing file
Endpoints == {"", "malformed", "set"}
Locations == {"", "missing", "dir", "file"}

Configs ==
    [VESPA_INSTANCE_URL : Endpoints, DEVELOPMENT_MODE : BOOLEAN,
     VESPA_KEY_LOCATION : Locations, VESPA_CERT_LOCATION : Locations,
     VESPA_DOCUMENT_BATCH_SIZE : {VESPA_DOCUMENT_BATCH_SIZE}]

\* Path(location).exists(); Path("") is the working directory
PathExists(location) == location \in {"", "dir", "file"}
PathIsFile(location) == location = "file"

\* the issues _check_vespa_certs collects; it raises when there is one
_check_vespa_certs(cfg) ==
    (IF cfg.VESPA_KEY_LOCATION = "" THEN {"key not configured"} ELSE {})
    \cup (IF ~(PathExists(cfg.VESPA_KEY_LOCATION) \/ PathIsFile(cfg.VESPA_KEY_LOCATION))
          THEN {"key location"} ELSE {})
    \cup (IF cfg.VESPA_CERT_LOCATION = "" THEN {"cert not configured"} ELSE {})
    \cup (IF ~(PathExists(cfg.VESPA_CERT_LOCATION) \/ PathIsFile(cfg.VESPA_CERT_LOCATION))
          THEN {"cert location"} ELSE {})

\* the client _get_vespa_instance returns, or the error it raises
_get_vespa_instance(cfg) ==
    IF cfg.VESPA_INSTANCE_URL = "" THEN [raises |-> "VespaConfigError"]
    ELSE IF cfg.DEVELOPMENT_MODE
         THEN [raises |-> "none", url |-> cfg.VESPA_INSTANCE_URL,
               key |-> "None", cert |-> "None"]
         ELSE IF _check_vespa_certs(cfg) # {} THEN [raises |-> "VespaConfigError"]
              ELSE [raises |-> "none", url |-> cfg.VESPA_INSTANCE_URL,
                    key |-> cfg.VESPA_KEY_LOCATION, cert |-> cfg.VESPA_CERT_LOCATION]

\* requests of the client reach the backend: the endpoint is the backend's
\* and the key and certificate, when used, can be read as files
Connects(vespa) ==
    /\ vespa.raises = "none"
    /\ vespa.url = "set"
    /\ vespa.key \in {"None", "file"}
    /\ vespa.cert \in {"None", "file"}

NoCall == [fn |-> "none"]

\* no run works on the index next to the one that is followed
NoWriters == [proc |-> <<>>, overlapped |-> FALSE, last_done |-> 0]

\* the indexer before its first run: empty index, nothing generated or sent
Idle ==
    /\ index = EmptyIndex
    /\ run = 0
    /\ pc = "idle"
    /\ resume = "none"
    /\ paths = <<>>
    /\ path_idx = 0
    /\ task = NoTask
    /\ text_blocks = <<>>
    /\ embeddings = <<>>
    /\ existing_doc_passage_ids = {}
    /\ new_passage_ids = <<>>
    /\ stray_ids = {}
    /\ to_process = EmptyBuffers
    /\ attempt = 0
    /\ last_error = NoError
    /\ last_responses = {}
    /\ yielded = <<>>
    /\ sent = <<>>
    /\ deleted = {}
    /\ delete_failed = FALSE
    /\ inputs = <<>>
    /\ history = <<>>

\* the state before the first run, in an environment whose backend returns
\* at most one of caps hits per call, whose input directory holds docs, in
\* which runs runs are followed, the flip of one of flips fails and the
\* settings are one of configs
StartIn(caps, docs, runs, flips, configs) ==
    /\ hit_cap \in caps
    /\ corpus = docs
    /\ run_limit = runs
    /\ flip_fails \in flips
    /\ config \in configs
    /\ call = NoCall
    /\ writers = NoWriters
    /\ Idle

\* the same with valid settings and documents whose flip succeeds
Start(caps, docs, runs) == StartIn(caps, docs, runs, {{}}, {ValidConfig})

\* the entry a run leaves in the history when it ends with index idx
Finished(how, idx, failed) ==
    Append(history, IF how = "done" /\ ~failed
                    THEN [ok |-> TRUE, inputs |-> inputs, index |-> idx]
                    ELSE [ok |-> FALSE, inputs |-> <<>>, index |-> EmptyIndex])

\* a run starts: the generator and the empty buffers are created
StartRun ==
    /\ pc \in {"idle", "done", "aborted"}
    /\ run < run_limit
    /\ run' = run + 1
    /\ paths' \in PathChoices(corpus)
    /\ IF _get_vespa_instance(config).raises = "none"
       THEN pc' = "weights" /\ last_error' = NoError /\ history' = history
       ELSE /\ pc' = "aborted"
            /\ last_error' = [kind |-> _get_vespa_instance(config).raises]
            /\ history' = Finished("aborted", index, FALSE)
    /\ resume' = "none"
    /\ path_idx' = 0
    /\ task' = NoTask
    /\ text_blocks' = <<>>
    /\ embeddings' = <<>>
    /\ existing_doc_passage_ids' = {}
    /\ new_passage_ids' = <<>>
    /\ stray_ids' = {}
    /\ to_process' = EmptyBuffers
    /\ attempt' = 0
    /\ last_responses' = {}
    /\ yielded' = <<>>
    /\ sent' = <<>>
    /\ deleted' = {}
    /\ delete_failed' = FALSE
    /\ inputs' = <<>>
    /\ UNCHANGED <<index, env>>

\* the loop body of populate_vespa for one yielded tuple: buffer it, and
\* start a flush when the passage buffer has reached the batch size
Consume(schema, id, fields, next_pc) ==
    LET tp == [to_process EXCEPT ![schema] = Append(@, [id |-> id, fields |-> fields])]
    IN  /\ yielded' = Append(yielded, [schema |-> schema, id |-> id, fields |-> fields])
        /\ to_process' = tp
        /\ IF ShouldFlush(tp)
           THEN pc' = "flush" /\ resume' = next_pc /\ sent' = sent \o Batch(tp)
           ELSE pc' = next_pc /\ resume' = resume /\ sent' = sent

\* a generator that starts with the documents
SkipWeights ==
    /\ pc = "weights"
    /\ pc' = "doc"
    /\ UNCHANGED <<index, env, run, resume, run_locals, to_process, attempt,
                   last_error, last_responses, yielded, sent, deleted,
                   delete_failed, inputs, history>>

\* the generator yields the ranking weights
YieldWeights ==
    /\ pc = "weights"
    /\ Consume(SEARCH_WEIGHTS_SCHEMA, search_weights_id, search_weights, "doc")
    /\ UNCHANGED <<index, env, run, run_locals, attempt, last_error,
                   last_responses, deleted, delete_failed, inputs, history>>

\* the generator reads the next document, filters it, loads its embeddings
\* and yields its family record
ReadDocument ==
    /\ pc = "doc"
    /\ path_idx < Len(paths)
    /\ LET d == paths[path_idx + 1]
       IN  \E v \in Versions(d) :
             LET emb == read_npy_file(v.rows)
             IN  /\ task' = [id |-> d]
                 /\ inputs' = Append(inputs, [id |-> d, limit |-> v.limit, rows |-> v.rows])
                 /\ text_blocks' =
                       FlippedOrUnflipped(
                           filter_blocks(get_text_blocks(d, v.limit), BLOCKS_TO_FILTER),
                           d \in flip_fails)
                 /\ embeddings' = emb
                 /\ Consume(FAMILY_DOCUMENT_SCHEMA, <<d>>,
                            build_vespa_family_document(d, emb, search_weights_id), "query")
    /\ path_idx' = path_idx + 1
    /\ UNCHANGED <<index, env, run, paths, existing_doc_passage_ids,
                   new_passage_ids, stray_ids, attempt, last_error, last_responses,
                   deleted, delete_failed, history>>

\* the generator asks the backend for the passages indexed for the document
QueryExisting ==
    /\ pc = "query"
    /\ IF Connects(_get_vespa_instance(config))
       THEN /\ \E matches \in Orders(IndexedPassageIds(index, task.id)) :
                  existing_doc_passage_ids' =
                      Range(get_existing_passage_ids(matches, hit_cap, 0))
            /\ pc' = "passage"
            /\ last_error' = last_error
            /\ history' = history
       ELSE /\ existing_doc_passage_ids' = existing_doc_passage_ids
            /\ pc' = "aborted"
            /\ last_error' = [kind |-> "RequestError"]
            /\ history' = Finished("aborted", index, delete_failed)
    /\ new_passage_ids' = <<>>
    /\ UNCHANGED <<index, env, run, resume, paths, path_idx, task, text_blocks,
                   embeddings, stray_ids, to_process, attempt,
                   last_responses, yielded, sent, deleted, delete_failed, inputs>>

\* the pairs of zip(text_blocks, embeddings[1:, :])
PassageCount(blocks, emb) == Min(Len(blocks), Len(emb) - 1)

\* a pairing that does not skip the description row
RowFromDescription(emb, k) == emb[k + 1]

\* the embedding row paired with the passage at 0-based position k
EmbeddingFor(emb, k) == Tail(emb)[k + 1]

\* the generator yields the next passage of the document
YieldPassage ==
    /\ pc = "passage"
    /\ Len(new_passage_ids) < PassageCount(text_blocks, embeddings)
    /\ LET k == Len(new_passage_ids)
           document_psg_id == PassageId(task.id, k)
       IN  /\ new_passage_ids' = Append(new_passage_ids, document_psg_id)
           /\ Consume(DOCUMENT_PASSAGE_SCHEMA, document_psg_id,
                      build_vespa_document_passage(task.id, search_weights_id,
                          text_blocks[k + 1], EmbeddingFor(embeddings, k)),
                      "passage")
    /\ UNCHANGED <<index, env, run, paths, path_idx, task, text_blocks,
                   embeddings, existing_doc_passage_ids, stray_ids, attempt,
                   last_error, last_responses, deleted, delete_failed, inputs,
                   history>>

\* a generator that deletes the strays before the passages are all yielded
CleanupEarly ==
    /\ pc = "passage"
    /\ stray_ids' = determine_stray_ids(existing_doc_passage_ids, new_passage_ids)
    /\ pc' = IF stray_ids' = {} THEN "doc" ELSE "remove"
    /\ UNCHANGED <<index, env, run, resume, paths, path_idx, task, text_blocks,
                   embeddings, existing_doc_passage_ids, new_passage_ids,
                   to_process, attempt, last_error, last_responses, yielded, sent,
                   deleted, delete_failed, inputs, history>>

\* a generator that goes on to the next document with the strays undeleted
CleanupLater ==
    /\ pc = "passage"
    /\ Len(new_passage_ids) >= PassageCount(text_blocks, embeddings)
    /\ stray_ids' = determine_stray_ids(existing_doc_passage_ids, new_passage_ids)
    /\ pc' = "doc"
    /\ UNCHANGED <<index, env, run, resume, paths, path_idx, task, text_blocks,
                   embeddings, existing_doc_passage_ids, new_passage_ids,
                   to_process, attempt, last_error, last_responses, yielded, sent,
                   deleted, delete_failed, inputs, history>>

\* the passages of the document are exhausted: the strays are determined
CleanupStrays ==
    /\ pc = "passage"
    /\ Len(new_passage_ids) >= PassageCount(text_blocks, embeddings)
    /\ stray_ids' = determine_stray_ids(existing_doc_passage_ids, new_passage_ids)
    /\ pc' = IF stray_ids' = {} THEN "doc" ELSE "remove"
    /\ UNCHANGED <<index, env, run, resume, paths, path_idx, task, text_blocks,
                   embeddings, existing_doc_passage_ids, new_passage_ids,
                   to_process, attempt, last_error, last_responses, yielded, sent,
                   deleted, delete_failed, inputs, history>>

\* remove_ids deletes one stray ID: the backend deletes it, or answers
\* unsuccessfully, or the call raises
RemoveId ==
    /\ pc = "remove"
    /\ \E id \in stray_ids, outcome \in {"deleted", "unsuccessful", "raised"} :
          /\ stray_ids' = stray_ids \ {id}
          /\ index' = IF outcome = "deleted" THEN delete_data(index, id) ELSE index
          /\ deleted' = IF outcome = "deleted" THEN deleted \cup {id} ELSE deleted
          /\ delete_failed' = (delete_failed \/ outcome # "deleted")
          /\ last_error' = IF outcome = "raised"
                           THEN [kind |-> "DeleteError", id |-> id, body |-> <<"raised", id>>]
                           ELSE last_error
          /\ pc' = IF outcome = "raised" THEN "aborted"
                   ELSE IF stray_ids' = {} THEN "doc" ELSE "remove"
          /\ history' = IF outcome = "raised" THEN Finished("aborted", index, TRUE)
                        ELSE history
    /\ UNCHANGED <<env, run, resume, paths, path_idx, task, text_blocks,
                   embeddings, existing_doc_passage_ids, new_passage_ids,
                   to_process, attempt, last_responses, yielded, sent, inputs>>

\* the generator is exhausted: the final flush is started
Exhausted ==
    /\ pc = "doc"
    /\ path_idx >= Len(paths)
    /\ pc' = "final"
    /\ sent' = sent \o Batch(to_process)
    /\ UNCHANGED <<index, env, run, resume, run_locals, to_process, attempt,
                   last_error, last_responses, yielded, deleted, delete_failed,
                   inputs, history>>

\* one attempt of _batch_ingest in which the backend rejects nothing
AttemptSucceeds ==
    /\ pc \in {"flush", "final"}
    /\ Connects(_get_vespa_instance(config))
    /\ index' = FeedFrom(index, to_process, 1)
    /\ attempt' = 0
    /\ last_error' = NoError
    /\ last_responses' = {}
    /\ IF pc = "flush"
       THEN pc' = resume /\ to_process' = ClearedBuffers(to_process) /\ history' = history
       ELSE /\ pc' = "done"
            /\ to_process' = to_process
            /\ history' = Finished("done", index', delete_failed)
    /\ UNCHANGED <<env, run, resume, run_locals, yielded, sent, deleted,
                   delete_failed, inputs>>

\* one attempt of _batch_ingest in which the backend rejects a record (F) of
\* schema number i; the records W of that schema were written before the
\* callback raised
AttemptRejected ==
    /\ pc \in {"flush", "final"}
    /\ \E i \in 1..Len(_SCHEMAS_TO_PROCESS) :
         LET schema == _SCHEMAS_TO_PROCESS[i]
             recs == to_process[schema]
         IN  \E F \in {{id} : id \in Ids(recs)} :
               /\ last_responses' = {<<id, Response(id, F).json>> : id \in F}
               /\ LET errors == FeedErrors(recs, F)
                      before == FeedBefore(index, to_process, i)
                  IN  IF errors = {}
                      THEN \* no callback raised: the attempt ends as a success
                           /\ index' = FeedFrom(FeedAll(before, schema, Pick(recs, Ids(recs) \ F)),
                                                to_process, i + 1)
                           /\ attempt' = 0
                           /\ last_error' = NoError
                           /\ IF pc = "flush"
                              THEN /\ pc' = resume
                                   /\ to_process' = ClearedBuffers(to_process)
                                   /\ history' = history
                              ELSE /\ pc' = "done"
                                   /\ to_process' = to_process
                                   /\ history' = Finished("done", index', delete_failed)
                      ELSE /\ \E W \in SUBSET (Ids(recs) \ F) :
                                index' = FeedAll(before, schema, Pick(recs, W))
                           /\ last_error' \in errors
                           /\ attempt' = attempt + 1
                           /\ pc' = IF RetryStops(attempt + 1) THEN "aborted" ELSE pc
                           /\ to_process' = to_process
                           /\ history' = IF RetryStops(attempt + 1)
                                         THEN Finished("aborted", index', delete_failed)
                                         ELSE history
    /\ UNCHANGED <<env, run, resume, run_locals, yielded, sent, deleted,
                   delete_failed, inputs>>

(***************************************************************************)
(* The functions of the indexer that can be called on their own.  `call`   *)
(* holds one call: the function, its arguments, and once it has returned   *)
(* its result.                                                             *)
(***************************************************************************)

\* all sequences over S of length at most n
Seqs(S, n) == UNION {[1..k -> S] : k \in 0..n}

\* the labels BlockTypes(label) accepts
BlockTypes == {"Text", "Table", "Figure", "TableCell"}

\* the labels that occur in exclusion lists, and as types of blocks
FilterLabels == {"Table", "TableCell", "Bogus", "Junk"}
BlockLabels == {"Text", "table", "TableCell", "Bogus"}

\* list.remove(x): the list without the first occurrence of x
ListRemove(list, x) ==
    LET first == CHOOSE i \in 1..Len(list) :
                     list[i] = x /\ \A j \in 1..(i - 1) : list[j] # x
    IN  SubSeq(list, 1, first - 1) \o SubSeq(list, first + 1, Len(list))

\* the loop over remove_block_types, standing at position i of the list it
\* iterates over and removes from: a label BlockTypes rejects is removed and
\* the iterator moves one position on in the shortened list
RECURSIVE RemoveUnknownFilters(_, _)
RemoveUnknownFilters(remove_block_types, i) ==
    IF i > Len(remove_block_types) THEN remove_block_types
    ELSE IF remove_block_types[i] \in BlockTypes
         THEN RemoveUnknownFilters(remove_block_types, i + 1)
         ELSE RemoveUnknownFilters(
                  ListRemove(remove_block_types, remove_block_types[i]), i + 1)

\* get_text_blocks(including_invalid_html=True): the blocks of the
\* document, whatever has_valid_text says
AllTextBlocks(input) == input.text_blocks

\* get_text_blocks(): no blocks for HTML without valid text
ValidTextBlocks(input) ==
    IF input.document_content_type = "text/html" /\ ~input.has_valid_text
    THEN <<>> ELSE input.text_blocks

replace_text_blocks(block, new_text_blocks) ==
    [block EXCEPT !.text_blocks = new_text_blocks]

\* a filter that looks only at the blocks of documents with valid text
FilterValidTextOnly(input, remove_block_types) ==
    LET kept == RemoveUnknownFilters(remove_block_types, 1)
    IN  [input |-> replace_text_blocks(
                       input, filter_blocks(ValidTextBlocks(input), kept)),
         remove_block_types |-> kept]

\* the filtered document, and the list as the call leaves it to its caller
filter_on_block_type(input, remove_block_types) ==
    LET kept == RemoveUnknownFilters(remove_block_types, 1)
    IN  [input |-> replace_text_blocks(
                       input, filter_blocks(AllTextBlocks(input), kept)),
         remove_block_types |-> kept]

\* the documents a call of filter_on_block_type is given
ParserOutputs ==
    {[document_content_type |-> ct, has_valid_text |-> hv,
      text_blocks |-> [j \in 1..Len(ts) |->
                          [id |-> j, type |-> ts[j], coords |-> "unflipped"]]] :
        ct \in {"application/pdf", "text/html"}, hv \in BOOLEAN,
        ts \in Seqs(BlockLabels, MaxCallBlocks)}

\* the passage numbers that occur in the lists given to determine_stray_ids
CallIds == {<<"A", k>> : k \in 0..2}

\* str.lower() on the values --index-type accepts (the choice ignores case)
Lower(index_type) == IF index_type = "VESPA" THEN "vespa" ELSE index_type

IndexTypes == {"opensearch", "vespa", "VESPA"}

\* the exit of run_as_cli: its code, and the backend it has indexed into;
\* `fails` says that indexing the selected documents raises
run_as_cli(index_type, fails) ==
    IF Lower(index_type) = "opensearch"
    THEN IF fails THEN [exit_code |-> 1, indexed |-> "none"]
         ELSE [exit_code |-> 0, indexed |-> "opensearch"]
    ELSE IF Lower(index_type) = "vespa"
         THEN [exit_code |-> 1, indexed |-> "none"]
         ELSE [exit_code |-> 1, indexed |-> "none"]

\* the IDs get_files_to_process returns (no --limit, no FILES_TO_PROCESS):
\* input_ids have a .json file in the input directory, previously an .npy
\* file in the output directory
get_files_to_process(input_ids, previously, redo) ==
    IF ~redo /\ (previously \cap input_ids) # {}
    THEN input_ids \ previously
    ELSE input_ids

\* the text2embeddings command: the documents it takes up as tasks, and those
\* it encodes and whose embeddings file it writes
text2embeddings(input_ids, previously, redo) ==
    LET tasks == get_files_to_process(input_ids, previously, redo)
    IN  [tasks |-> tasks,
         encoded |-> {d \in tasks : d \notin previously}]

\* the calls that are examined
Calls ==
    {[fn |-> "filter_on_block_type",
      args |-> [input |-> d, remove_block_types |-> l],
      returned |-> FALSE, result |-> <<>>] :
        d \in {o \in ParserOutputs :
                   o.document_content_type = "text/html" \/ o.has_valid_text},
        l \in Seqs(FilterLabels, MaxLen)}
    \cup
    {[fn |-> "determine_stray_ids",
      args |-> [existing |-> ex, new |-> nw],
      returned |-> FALSE, result |-> <<>>] :
        ex \in Seqs(CallIds, MaxLen), nw \in Seqs(CallIds, MaxLen)}
    \cup
    {[fn |-> "run_as_cli",
      args |-> [index_type |-> t, fails |-> f],
      returned |-> FALSE, result |-> <<>>] :
        t \in IndexTypes, f \in BOOLEAN}
    \cup
    {[fn |-> "text2embeddings",
      args |-> [input_ids |-> i, previously |-> o, redo |-> r],
      returned |-> FALSE, result |-> <<>>] :
        i \in SUBSET Docs, o \in SUBSET Docs, r \in BOOLEAN}
    \cup
    {[fn |-> "get_existing_passage_ids",
      args |-> [total |-> t, cap |-> c],
      returned |-> FALSE,
      result |-> [offset |-> 0, pages |-> <<>>, existing_ids |-> <<>>]] :
        t \in 0..MaxTotal, c \in 1..max_hits}

CallFilter ==
    /\ call.fn = "filter_on_block_type"
    /\ ~call.returned
    /\ call' = [call EXCEPT
                   !.returned = TRUE,
                   !.result = filter_on_block_type(
                                  call.args.input, call.args.remove_block_types)]
    /\ UNCHANGED <<index, hit_cap, corpus, run_limit, flip_fails, config, writers, run,
                   pc, resume, run_locals, to_process, attempt, last_error,
                   last_responses, yielded, sent, deleted, delete_failed,
                   inputs, history>>

CallCli ==
    /\ call.fn = "run_as_cli"
    /\ ~call.returned
    /\ call' = [call EXCEPT
                   !.returned = TRUE,
                   !.result = run_as_cli(call.args.index_type, call.args.fails)]
    /\ UNCHANGED <<index, hit_cap, corpus, run_limit, flip_fails, config, writers, run,
                   pc, resume, run_locals, to_process, attempt, last_error,
                   last_responses, yielded, sent, deleted, delete_failed,
                   inputs, history>>

CallEncode ==
    /\ call.fn = "text2embeddings"
    /\ ~call.returned
    /\ call' = [call EXCEPT
                   !.returned = TRUE,
                   !.result = text2embeddings(call.args.input_ids,
                                  call.args.previously, call.args.redo)]
    /\ UNCHANGED <<index, hit_cap, corpus, run_limit, flip_fails, config, writers, run,
                   pc, resume, run_locals, to_process, attempt, last_error,
                   last_responses, yielded, sent, deleted, delete_failed,
                   inputs, history>>

\* one request of get_existing_passage_ids, and its test for more: the
\* backend holds args.total matches and returns at most args.cap per request
CallQuery ==
    /\ call.fn = "get_existing_passage_ids"
    /\ ~call.returned
    /\ LET offset == call.result.offset
           hits == QueryPage([i \in 1..call.args.total |-> i], call.args.cap,
                             max_hits, offset)
           more == MoreToGo(hits, offset, call.args.total)
       IN  call' = [call EXCEPT
                       !.returned = ~more,
                       !.result = [offset |-> IF more THEN offset + max_hits ELSE offset,
                                   pages |-> Append(call.result.pages,
                                                [offset |-> offset, hits |-> Len(hits)]),
                                   existing_ids |-> call.result.existing_ids \o hits]]
    /\ UNCHANGED <<index, hit_cap, corpus, run_limit, flip_fails, config, writers, run,
                   pc, resume, run_locals, to_process, attempt, last_error,
                   last_responses, yielded, sent, deleted, delete_failed,
                   inputs, history>>

\* list(set(existing) - set(new)): the difference in some order
CallStray ==
    /\ call.fn = "determine_stray_ids"
    /\ ~call.returned
    /\ \E ids \in Orders(determine_stray_ids(
                             Range(call.args.existing), call.args.new)) :
           call' = [call EXCEPT !.returned = TRUE, !.result = ids]
    /\ UNCHANGED <<index, hit_cap, corpus, run_limit, flip_fails, config, writers, run,
                   pc, resume, run_locals, to_process, attempt, last_error,
                   last_responses, yielded, sent, deleted, delete_failed,
                   inputs, history>>


(***************************************************************************)
(* Two runs of populate_vespa over document "A" that work on the same      *)
(* index.  Each run is the code of the single run above with its flushes   *)
(* and deletes succeeding; a query, a flush and a delete of one ID are     *)
(* each one step on the index.                                             *)
(***************************************************************************)
Writers == {1, 2}

\* everything of the single run that is followed on its own
machine == <<run, pc, resume, run_locals, to_process, attempt, last_error,
             last_responses, yielded, sent, deleted, delete_failed, inputs,
             history>>

\* a run that has not started, given version v of the document
WriterIdle(v) ==
    [pc |-> "idle", v |-> v, text_blocks |-> <<>>, embeddings |-> <<>>,
     existing_doc_passage_ids |-> {}, new_passage_ids |-> <<>>,
     stray_ids |-> {}, to_process |-> EmptyBuffers]

InProgress(w) == writers.proc[w].pc \notin {"idle", "done"}

\* run w yields the weights, reads the document and yields its family record
WriterReads(w) ==
    LET me == writers.proc[w]
        emb == read_npy_file(me.v.rows)
        tp == [EmptyBuffers EXCEPT
                  ![SEARCH_WEIGHTS_SCHEMA] =
                      <<[id |-> search_weights_id, fields |-> search_weights]>>,
                  ![FAMILY_DOCUMENT_SCHEMA] =
                      <<[id |-> <<"A">>,
                         fields |-> build_vespa_family_document(
                                        "A", emb, search_weights_id)]>>]
    IN  /\ me.pc = "idle"
        /\ writers' = [writers EXCEPT
              !.proc[w] = [me EXCEPT
                  !.pc = "query",
                  !.text_blocks = FlippedOrUnflipped(
                      filter_blocks(get_text_blocks("A", me.v.limit), BLOCKS_TO_FILTER),
                      FALSE),
                  !.embeddings = emb,
                  !.to_process = tp],
              !.overlapped = @ \/ \E o \in Writers \ {w} : InProgress(o)]
        /\ UNCHANGED <<index, hit_cap, corpus, run_limit, flip_fails, config,
                       call, machine>>

\* run w asks for the passages indexed for the document
WriterQueries(w) ==
    LET me == writers.proc[w]
    IN  /\ me.pc = "query"
        /\ \E matches \in Orders(IndexedPassageIds(index, "A")) :
              writers' = [writers EXCEPT
                  !.proc[w] = [me EXCEPT
                      !.pc = "passage",
                      !.existing_doc_passage_ids =
                          Range(get_existing_passage_ids(matches, hit_cap, 0))]]
        /\ UNCHANGED <<index, hit_cap, corpus, run_limit, flip_fails, config,
                       call, machine>>

\* run w yields its next passage; the buffers are flushed when they are due
WriterYields(w) ==
    LET me == writers.proc[w]
        k == Len(me.new_passage_ids)
        document_psg_id == PassageId("A", k)
        tp == [me.to_process EXCEPT
                  ![DOCUMENT_PASSAGE_SCHEMA] =
                      Append(@, [id |-> document_psg_id,
                                 fields |-> build_vespa_document_passage(
                                     "A", search_weights_id, me.text_blocks[k + 1],
                                     EmbeddingFor(me.embeddings, k))])]
    IN  /\ me.pc = "passage"
        /\ k < PassageCount(me.text_blocks, me.embeddings)
        /\ index' = IF ShouldFlush(tp) THEN FeedFrom(index, tp, 1) ELSE index
        /\ writers' = [writers EXCEPT
              !.proc[w] = [me EXCEPT
                  !.new_passage_ids = Append(@, document_psg_id),
                  !.to_process = IF ShouldFlush(tp) THEN ClearedBuffers(tp) ELSE tp]]
        /\ UNCHANGED <<hit_cap, corpus, run_limit, flip_fails, config, call, machine>>

\* run w has yielded its passages and determines the strays
WriterCleansUp(w) ==
    LET me == writers.proc[w]
        strays == determine_stray_ids(me.existing_doc_passage_ids, me.new_passage_ids)
    IN  /\ me.pc = "passage"
        /\ Len(me.new_passage_ids) >= PassageCount(me.text_blocks, me.embeddings)
        /\ writers' = [writers EXCEPT
              !.proc[w] = [me EXCEPT
                  !.stray_ids = strays,
                  !.pc = IF strays = {} THEN "final" ELSE "remove"]]
        /\ UNCHANGED <<index, hit_cap, corpus, run_limit, flip_fails, config,
                       call, machine>>

\* run w deletes one of its stray IDs
WriterRemoves(w) ==
    LET me == writers.proc[w]
    IN  /\ me.pc = "remove"
        /\ \E id \in me.stray_ids :
              /\ index' = delete_data(index, id)
              /\ writers' = [writers EXCEPT
                    !.proc[w] = [me EXCEPT
                        !.stray_ids = @ \ {id},
                        !.pc = IF me.stray_ids = {id} THEN "final" ELSE "remove"]]
        /\ UNCHANGED <<hit_cap, corpus, run_limit, flip_fails, config, call, machine>>

\* the final flush of run w
WriterFinishes(w) ==
    LET me == writers.proc[w]
    IN  /\ me.pc = "final"
        /\ index' = FeedFrom(index, me.to_process, 1)
        /\ writers' = [writers EXCEPT
              !.proc[w] = [me EXCEPT !.pc = "done"],
              !.last_done = w]
        /\ UNCHANGED <<hit_cap, corpus, run_limit, flip_fails, config, call, machine>>

SomeReads == \E w \in Writers : WriterReads(w)
SomeQueries == \E w \in Writers : WriterQueries(w)
SomeYields == \E w \in Writers : WriterYields(w)
SomeCleansUp == \E w \in Writers : WriterCleansUp(w)
SomeRemoves == \E w \in Writers : WriterRemoves(w)
SomeFinishes == \E w \in Writers : WriterFinishes(w)

Next ==
    \/ StartRun
    \/ YieldWeights
    \/ ReadDocument
    \/ QueryExisting
    \/ YieldPassage
    \/ CleanupStrays
    \/ RemoveId
    \/ Exhausted
    \/ AttemptSucceeds
    \/ AttemptRejected

\* the backend returns every hit a query asks for, up to max_hits
Init == Start({max_hits}, Docs, MaxRuns)

Spec == Init /\ [][Next]_vars

\* the backend may return fewer hits per call than the query asks for
InitCap == Start(1..max_hits, {"A"}, MaxRuns)

SpecCap == InitCap /\ [][Next]_vars

\* one document; an attempt of a flush that has been started is made (the
\* retry decorator calls _batch_ingest again after a finite wait)
InitFlush == Start({max_hits}, {"A"}, MaxRuns)

\* both documents, flushed after every passage
InitBatch == StartIn({max_hits}, Docs, MaxRuns, {{}}, {SmallBatchConfig})

SpecBatch == InitBatch /\ [][Next]_vars

SpecFlush ==
    InitFlush /\ [][Next]_vars /\ WF_vars(AttemptSucceeds \/ AttemptRejected)

\* the coordinate flip of document A fails
InitFlip == StartIn({max_hits}, Docs, MaxRuns, {{"A"}}, {ValidConfig})

SpecFlip == InitFlip /\ [][Next]_vars

\* one document indexed over one more run, to follow it shrinking and growing back
InitRegrow == Start({max_hits}, {"A"}, MaxRuns + 1)

SpecRegrow == InitRegrow /\ [][Next]_vars

\* one document, indexed under every combination of the backend settings
InitConfig == StartIn({max_hits}, {"A"}, MaxRuns, {{}}, Configs)

SpecConfig == InitConfig /\ [][Next]_vars

\* one call of a function on its own, the indexer not running
InitCalls ==
    /\ hit_cap = max_hits
    /\ corpus = {}
    /\ run_limit = 0
    /\ flip_fails = {}
    /\ config = ValidConfig
    /\ call \in Calls
    /\ writers = NoWriters
    /\ Idle

NextCalls ==
    \/ CallFilter
    \/ CallStray
    \/ CallCli
    \/ CallEncode
    \/ CallQuery

SpecCalls == InitCalls /\ [][NextCalls]_vars

\* the same, a query that has been started going on to its next request
SpecQuery == InitCalls /\ [][NextCalls]_vars /\ WF_vars(CallQuery)

\* two runs over document "A", each with a version of its own, on an empty index
InitRace ==
    /\ hit_cap = max_hits
    /\ corpus = {"A"}
    /\ run_limit = 0
    /\ flip_fails = {}
    /\ config = ValidConfig
    /\ call = NoCall
    /\ \E v1, v2 \in Versions("A") :
          writers = [proc |-> <<WriterIdle(v1), WriterIdle(v2)>>,
                     overlapped |-> FALSE, last_done |-> 0]
    /\ Idle

NextRace ==
    \/ SomeReads
    \/ SomeQueries
    \/ SomeYields
    \/ SomeCleansUp
    \/ SomeRemoves
    \/ SomeFinishes

SpecRace == InitRace /\ [][NextRace]_vars

(***************************************************************************)
(* populate_opensearch: the indices are deleted, then created and loaded.  *)
(***************************************************************************)
\* the suffixes of the names of indices_to_populate, in its order
indices_to_populate ==
    <<"core", "pdfs_non_translated", "pdfs_translated",
      "htmls_non_translated", "htmls_translated">>

\* a loop that goes round once more
TriesOnceMore(attempt_count, succeeded) == attempt_count < 6 /\ ~succeeded

\* the loop condition of delete_index and of create_index
TriesAgain(attempt_count, succeeded) == attempt_count < 5 /\ ~succeeded

\* nothing has been asked of the backend
NoOperation == [op |-> "none", i |-> 0, answers |-> <<>>, result |-> "none"]

\* populate_opensearch at the start of the operation op on index i
OpenSearchAt(op, i, deleted_indices, created, loaded, last) ==
    [op |-> op, i |-> i, attempt_count |-> 0, answers |-> <<>>,
     deleted |-> deleted_indices, created |-> created, loaded |-> loaded,
     last |-> last]

PopulateOpenSearchCall ==
    [fn |-> "populate_opensearch",
     args |-> [indices |-> indices_to_populate],
     returned |-> FALSE,
     result |-> OpenSearchAt("delete", 1, {}, {}, {}, NoOperation)]

\* the call has ended in the exception `result`, raised by the operation at hand
Raised(st, answers, result) ==
    [st EXCEPT !.op = "raised", !.answers = <<>>, !.attempt_count = 0,
               !.last = [op |-> st.op, i |-> st.i, answers |-> answers,
                         result |-> result]]

\* one round of the loop of delete_index or create_index on the state st:
\* `on_success` is the state after the operation has succeeded
LoopRound(st, answer, on_success) ==
    LET answers == Append(st.answers, answer)
        succeeded == answer = "ok"
        attempt_count == IF answer = "ConnectionTimeout"
                         THEN st.attempt_count + 1 ELSE st.attempt_count
    IN  IF answer = "error" THEN Raised(st, answers, "error")
        ELSE IF TriesAgain(attempt_count, succeeded)
             THEN [st EXCEPT !.answers = answers, !.attempt_count = attempt_count]
        ELSE IF ~succeeded THEN Raised(st, answers, "RuntimeError")
        ELSE [on_success EXCEPT
                 !.last = [op |-> st.op, i |-> st.i, answers |-> answers,
                           result |-> "ok"]]

OpenSearchStep(st) ==
    /\ call.fn = "populate_opensearch"
    /\ ~call.returned
    /\ call' = [call EXCEPT !.result = st,
                            !.returned = st.op \in {"raised", "done"}]
    /\ UNCHANGED <<index, hit_cap, corpus, run_limit, flip_fails, config, writers, run,
                   pc, resume, run_locals, to_process, attempt, last_error,
                   last_responses, yielded, sent, deleted, delete_failed,
                   inputs, history>>

\* one request of OpenSearchIndex.delete_index, in the first loop of
\* populate_opensearch
DeleteAttempt ==
    LET st == call.result
        n == Len(call.args.indices)
        next == IF st.i < n
                THEN OpenSearchAt("delete", st.i + 1, st.deleted \cup {st.i},
                                  st.created, st.loaded, st.last)
                ELSE OpenSearchAt("create", 1, st.deleted \cup {st.i},
                                  st.created, st.loaded, st.last)
    IN  /\ st.op = "delete"
        /\ \E answer \in {"ok", "ConnectionTimeout", "error"} : OpenSearchStep(LoopRound(st, answer, next))

\* one request of OpenSearchIndex.create_index, in populate_and_warmup_index
CreateAttempt ==
    LET st == call.result
        next == OpenSearchAt("load", st.i, st.deleted, st.created \cup {st.i},
                             st.loaded, st.last)
    IN  /\ st.op = "create"
        /\ \E answer \in {"ok", "ConnectionTimeout", "error"} : OpenSearchStep(LoopRound(st, answer, next))

\* the rest of populate_and_warmup_index: the bulk load and the warmup, which
\* have no loop of their own
BulkLoad ==
    LET st == call.result
        n == Len(call.args.indices)
        loaded == st.loaded \cup {st.i}
        done == [op |-> "load", i |-> st.i, answers |-> <<"ok">>, result |-> "ok"]
    IN  /\ st.op = "load"
        /\ \E answer \in {"ok", "error"} :
              OpenSearchStep(
                  IF answer = "error" THEN Raised(st, <<answer>>, "error")
                  ELSE IF st.i < n
                       THEN OpenSearchAt("create", st.i + 1, st.deleted,
                                         st.created, loaded, done)
                       ELSE OpenSearchAt("done", st.i, st.deleted, st.created,
                                         loaded, done))

InitOpenSearch ==
    /\ hit_cap = max_hits
    /\ corpus = {}
    /\ run_limit = 0
    /\ flip_fails = {}
    /\ config = ValidConfig
    /\ call = PopulateOpenSearchCall
    /\ writers = NoWriters
    /\ Idle

NextOpenSearch ==
    \/ DeleteAttempt
    \/ CreateAttempt
    \/ BulkLoad

SpecOpenSearch == InitOpenSearch /\ [][NextOpenSearch]_vars

(***************************************************************************)
(* Properties.                                                             *)
(***************************************************************************)
\* the (schema, id) tags of a sequence of yielded tuples
Tags(recs) == [i \in 1..Len(recs) |-> [schema |-> recs[i].schema, id |-> recs[i].id]]

\* how many times tag t occurs in the sequence of tags ts
Occurrences(ts, t) == Cardinality({i \in 1..Len(ts) : ts[i] = t})

\* the passage tuples the generator has yielded for document d in this run
YieldedPassages(d) ==
    {r \in Range(yielded) : r.schema = DOCUMENT_PASSAGE_SCHEMA /\ r.id[1] = d}

\* the generator has been run to exhaustion
GeneratorExhausted == pc \in {"final", "done"}

\* the passages of the current document have all been yielded
DocumentYielded == pc = "remove" \/ (pc = "doc" /\ task # NoTask)

\* the positions of the yielded stream that hold a ranking-weights record
WeightsPositions == {i \in 1..Len(yielded) : yielded[i].schema = SEARCH_WEIGHTS_SCHEMA}

\* C5: whatever the list of input documents, the generator yields exactly one
\* ranking-weights record (schema search_weights, id default_weights), and it
\* is the first tuple of the stream, before any family or passage record.
C5_OneWeightsRecordFirst ==
    /\ yielded # <<>> =>
          /\ WeightsPositions = {1}
          /\ yielded[1].id = search_weights_id
          /\ yielded[1].fields = search_weights
    /\ pc \notin {"idle", "weights"} => yielded # <<>>
    /\ GeneratorExhausted => Cardinality(WeightsPositions) = 1

\* a finished run over two documents whose stream holds families and passages
C5_Witness ==
    /\ pc = "done"
    /\ Len(paths) = 2
    /\ Len(yielded) >= 5

\* the yielded passage tuple with the given ID
PassageTuple(id) ==
    CHOOSE r \in Range(yielded) : r.schema = DOCUMENT_PASSAGE_SCHEMA /\ r.id = id

\* every passage yielded so far for the current document joins the filtered
\* block at its position with the matrix row one below it
PositionalPairing ==
    pc # "query" => \A i \in 1..Len(new_passage_ids) :
        LET r == PassageTuple(new_passage_ids[i])
        IN  /\ new_passage_ids[i] = PassageId(task.id, i - 1)
            /\ r.fields.text_block_id = text_blocks[i].id
            /\ r.fields.text_embedding = embeddings[i + 1]
            /\ r.fields.family_document_ref = task.id

\* C4 (as the code has it): for every document the number of passage records
\* yielded is the smaller of the number of text blocks remaining after
\* filtering and the number of matrix rows after row 0, and the passage at
\* 0-based position i among the filtered blocks carries matrix row i+1.
C4_PassagesPairBlocksWithRows ==
    /\ PositionalPairing
    /\ DocumentYielded =>
          Len(new_passage_ids) = Min(Len(text_blocks), Len(embeddings) - 1)

\* a document whose matrix has fewer rows after row 0 than it has filtered
\* blocks has been yielded completely
C4_Witness ==
    /\ DocumentYielded
    /\ Len(new_passage_ids) >= 1
    /\ Len(embeddings) - 1 < Len(text_blocks)

\* C4 as claimed: for every document the number of passage records yielded
\* equals the number of text blocks remaining after filtering, and the
\* passage at position i carries matrix row i+1.
C4_OnePassagePerFilteredBlock ==
    /\ PositionalPairing
    /\ DocumentYielded => Len(new_passage_ids) = Len(text_blocks)

\* C6: every record the generator yields is handed to exactly one flush: while
\* the generator runs, each yielded record is either still buffered or has
\* been flushed once, the passage buffer never stays at the batch size, and
\* when the run is done the flushes together hold each yielded record once.
C6_EveryRecordFlushedOnce ==
    /\ pc \in {"weights", "doc", "query", "passage", "remove"} =>
          /\ ~ShouldFlush(to_process)
          /\ Len(sent) + Len(Batch(to_process)) = Len(yielded)
          /\ \A t \in Range(Tags(yielded)) :
                Occurrences(sent \o Batch(to_process), t) = 1
    /\ pc \in {"flush", "final", "done"} =>
          /\ Len(sent) = Len(yielded)
          /\ \A t \in Range(Tags(yielded)) : Occurrences(sent, t) = 1
    /\ pc = "flush" => ShouldFlush(to_process)

\* a finished run with a flush inside the loop and a final flush that still
\* had passages to send
C6_Witness ==
    /\ pc = "done"
    /\ to_process[DOCUMENT_PASSAGE_SCHEMA] # <<>>
    /\ Len(Batch(to_process)) < Len(yielded)

\* C7: when the backend's response for a record of a flush attempt is not
\* successful, the attempt fails with a VespaIndexError that names that
\* record's ID and the response body, whatever else of the batch was written.
C7_RejectedRecordFailsAttempt ==
    last_responses # {} =>
        /\ attempt >= 1
        /\ last_error.kind = "VespaIndexError"
        /\ <<last_error.id, last_error.body>> \in last_responses

\* a first attempt of the first run that failed on one passage while another
\* passage of the same batch was written
C7_Witness ==
    /\ run = 1
    /\ attempt = 1
    /\ last_error.kind = "VespaIndexError"
    /\ \E r \in Range(to_process[DOCUMENT_PASSAGE_SCHEMA]) :
          /\ r.id # last_error.id
          /\ index.psg[r.id] # NoRec
    /\ \E r \in Range(to_process[DOCUMENT_PASSAGE_SCHEMA]) : r.id = last_error.id

\* C8: a flush is attempted at most stop_after_attempt (10) times; when every
\* attempt has failed the error leaves populate_vespa and the run is over:
\* the buffers keep the batch, and the run issues no further generation,
\* query, delete or flush (only a new run follows).
C8_RetriesBoundedThenAbort ==
    /\ [](/\ attempt <= stop_after_attempt
          /\ pc \in {"flush", "final"} => attempt < stop_after_attempt
          /\ attempt = stop_after_attempt =>
                /\ pc = "aborted"
                /\ last_error.kind = "VespaIndexError"
                /\ to_process # EmptyBuffers
                /\ \E r \in Range(to_process[_SCHEMAS_TO_PROCESS[1]]
                                  \o to_process[_SCHEMAS_TO_PROCESS[2]]
                                  \o to_process[_SCHEMAS_TO_PROCESS[3]]) :
                      r.id = last_error.id)
    /\ [][pc = "aborted" =>
            /\ run' = run + 1
            /\ pc' = "weights"
            /\ index' = index]_vars

\* a run aborted by the tenth failed attempt of a flush inside the loop, with
\* a document still unread
C8_Witness ==
    /\ pc = "aborted"
    /\ attempt = stop_after_attempt
    /\ path_idx < Len(paths)
    /\ ShouldFlush(to_process)

\* C1: after a successful run (every flush went through, no delete failed),
\* for every document the run processed, the passage IDs in the index that
\* reference the document's family record are exactly the passage IDs the
\* run generated for it, whatever the index held for it before the run.
C1_IndexHoldsGeneratedPassages ==
    (pc = "done" /\ ~delete_failed) =>
        \A d \in Range(paths) :
            IndexedPassageIds(index, d) = {r.id : r \in YieldedPassages(d)}

\* a successful second run that had strays to delete
C1_Witness ==
    /\ pc = "done"
    /\ ~delete_failed
    /\ run = 2
    /\ Cardinality(deleted) >= 2
    /\ \E d \in Range(paths) : YieldedPassages(d) # {}

\* the last entries of the history, newest last
LastRun == history[Len(history)]
RunBefore == history[Len(history) - 1]
RunBeforeThat == history[Len(history) - 2]

\* the run of a history entry read document d
Reads(entry, d) == \E i \in 1..Len(entry.inputs) : entry.inputs[i].id = d

\* the version of document d the run of a history entry read
VersionOf(entry, d) == entry.inputs[CHOOSE i \in 1..Len(entry.inputs) : entry.inputs[i].id = d]

\* the number of passages the generator yields for version v of a document
Pairs(v) ==
    PassageCount(filter_blocks(get_text_blocks(v.id, v.limit), BLOCKS_TO_FILTER),
                 read_npy_file(v.rows))

\* version vm is version vn cut to fewer blocks (and no more matrix rows)
TruncationOf(vm, vn) == vm.id = vn.id /\ vm.limit < vn.limit /\ vm.rows <= vn.rows

\* the last three runs succeeded and indexed document d with n blocks, then
\* truncated to m < n blocks, then with the n blocks again
ShrinkThenGrow(d) ==
    /\ Len(history) >= 3
    /\ pc = "done"
    /\ \A e \in {LastRun, RunBefore, RunBeforeThat} : e.ok /\ Reads(e, d)
    /\ VersionOf(LastRun, d) = VersionOf(RunBeforeThat, d)
    /\ TruncationOf(VersionOf(RunBefore, d), VersionOf(RunBeforeThat, d))

RepeatedRun ==
    /\ Len(history) >= 2
    /\ pc = "done"
    /\ LastRun.ok
    /\ RunBefore.ok
    /\ LastRun.inputs = RunBefore.inputs

\* C3: a second run on identical input leaves the index as the first run left
\* it (the same ranking-weights, family and passage records, the same passage
\* IDs for every document), and the second run deletes nothing.
C3_SecondRunChangesNothing ==
    RepeatedRun =>
        /\ LastRun.index = RunBefore.index
        /\ index = RunBefore.index
        /\ deleted = {}

\* two successful runs over the same two documents, with passages indexed
C3_Witness ==
    /\ RepeatedRun
    /\ Len(inputs) = 2
    /\ Cardinality(IndexedPassageIds(index, "A")) >= 2
    /\ index.sw # NoRec

\* C9 as claimed: whatever cap the backend applies to the hits of one call,
\* the query returns every passage ID indexed for the document before
\* reconciliation proceeds.
C9_QueryReturnsEveryIndexedPassage ==
    (pc = "passage" /\ new_passage_ids = <<>>) =>
        existing_doc_passage_ids = IndexedPassageIds(index, task.id)

\* C10 as claimed: a failed delete of a stray passage ID does not abort the
\* run: the remaining strays are still deleted and the run goes on to its
\* flushes, so a run is only ever aborted by a flush.
C10_FailedDeleteDoesNotAbort ==
    delete_failed =>
        /\ pc = "aborted" => last_error.kind = "VespaIndexError"
        /\ pc \in {"doc", "final", "done"} => stray_ids = {}

\* every block of version v of a document has a type of the exclusion list
EveryBlockExcluded(v) ==
    \A j \in 1..v.limit : Title(BlockType(v.id, j)) \in Range(BLOCKS_TO_FILTER)

\* the family tuples the generator has yielded for document d in this run
YieldedFamilies(d) ==
    {i \in 1..Len(yielded) : yielded[i].schema = FAMILY_DOCUMENT_SCHEMA /\ yielded[i].id = <<d>>}

\* C11: a document that has no text block left after filtering yields its
\* family record and no passage record, and when the run has ended
\* successfully (no failed delete) no passage indexed for it before remains.
C11_EmptyDocumentReconciledAway ==
    \A i \in 1..Len(inputs) :
        EveryBlockExcluded(inputs[i]) =>
            /\ Cardinality(YieldedFamilies(inputs[i].id)) = 1
            /\ YieldedPassages(inputs[i].id) = {}
            /\ (pc = "done" /\ ~delete_failed) =>
                  IndexedPassageIds(index, inputs[i].id) = {}

\* a successful run read a document whose only block is filtered out, and
\* deleted the passages an earlier run had indexed for it
C11_Witness ==
    /\ pc = "done"
    /\ ~delete_failed
    /\ \E i \in 1..Len(inputs) :
          /\ inputs[i].limit >= 1
          /\ EveryBlockExcluded(inputs[i])
          /\ \E p \in deleted : p[1] = inputs[i].id

\* the ids of the blocks of version v that the exclusion list does not exclude
KeptBlockIds(v) ==
    {j \in 1..v.limit : Title(BlockType(v.id, j)) \notin Range(BLOCKS_TO_FILTER)}

RecognizedLabels(list) == SelectSeq(list, LAMBDA l : l \in BlockTypes)

\* the ids of the blocks of a document whose normalized label is not in labels
IdsOutside(input, labels) ==
    {j \in 1..Len(input.text_blocks) :
        Title(input.text_blocks[j].type) \notin labels}

FilterReturned == call.fn = "filter_on_block_type" /\ call.returned

\* C13: every unrecognized label is dropped from the exclusion list, and the
\* blocks are filtered on exactly the recognized labels of the list
C13_UnrecognizedLabelsDropped ==
    FilterReturned =>
        /\ call.result.remove_block_types
               = RecognizedLabels(call.args.remove_block_types)
        /\ {b.id : b \in Range(call.result.input.text_blocks)}
               = IdsOutside(call.args.input,
                            Range(call.args.remove_block_types) \cap BlockTypes)

\* C14: the document's blocks are replaced by exactly the blocks whose
\* normalized type label is not in the exclusion list the filter works with,
\* in their original order, also for HTML whose has_valid_text is false
C14_KeepsBlocksOutsideExclusion ==
    FilterReturned =>
        LET before == call.args.input.text_blocks
            after == call.result.input.text_blocks
        IN  /\ {b.id : b \in Range(after)}
                   = IdsOutside(call.args.input,
                                Range(call.result.remove_block_types))
            /\ \A i \in 1..Len(after) : after[i] = before[after[i].id]
            /\ \A i, j \in 1..Len(after) : i < j => after[i].id < after[j].id
            /\ call.result.input.document_content_type
                   = call.args.input.document_content_type

\* an HTML document without valid text has lost one block and kept another
C14_Witness ==
    /\ FilterReturned
    /\ call.args.input.document_content_type = "text/html"
    /\ ~call.args.input.has_valid_text
    /\ Len(call.args.input.text_blocks) = 2
    /\ Len(call.result.input.text_blocks) = 1
    /\ call.args.input.text_blocks[1].type = "table"
    /\ call.result.input.text_blocks[1].id = 2

StrayReturned == call.fn = "determine_stray_ids" /\ call.returned

\* C15: determine_stray_ids returns exactly the IDs that occur in the existing
\* list and not in the new list, each once, and nothing when every existing
\* ID is also new
C15_StraysAreExistingNotNew ==
    StrayReturned =>
        /\ \A id \in CallIds :
               Occurrences(call.result, id)
                   = IF id \in Range(call.args.existing)
                        /\ id \notin Range(call.args.new)
                     THEN 1 ELSE 0
        /\ Range(call.result) \subseteq CallIds
        /\ Range(call.args.existing) \subseteq Range(call.args.new)
               => call.result = <<>>

\* an ID twice in the existing list and not new is returned once, next to an
\* ID that is in both lists and one that is new only
C15_Witness ==
    /\ StrayReturned
    /\ Len(call.args.existing) = 3
    /\ call.args.existing[2] = call.args.existing[3]
    /\ call.args.existing[1] \in Range(call.args.new)
    /\ Range(call.args.new) \ Range(call.args.existing) # {}
    /\ call.result = <<call.args.existing[2]>>

\* the passage records yielded for document d in this run, in stream order
PassageStream(d) ==
    SelectSeq(yielded, LAMBDA r : r.schema = DOCUMENT_PASSAGE_SCHEMA /\ r.id[1] = d)

\* the version of document d read in this run
CurrentVersion(d) == inputs[CHOOSE i \in 1..Len(inputs) : inputs[i].id = d]

\* C16: the k-th passage yielded for a document (k from 0, in filtered block
\* order) has the ID document_id.k, so the IDs generated for a document with
\* n passages are document_id.0 to document_id.(n-1), without gap or repeat.
C16_PassageIdsNumberedFromZero ==
    \A d \in Docs :
        LET ps == PassageStream(d)
        IN  /\ \A k \in 1..Len(ps) :
                  /\ ps[k].id = <<d, k - 1>>
                  /\ ps[k].fields.text_block_id \in KeptBlockIds(CurrentVersion(d))
                  /\ Cardinality({j \in KeptBlockIds(CurrentVersion(d)) :
                                     j < ps[k].fields.text_block_id}) = k - 1
            /\ {ps[k].id : k \in 1..Len(ps)} = {<<d, k>> : k \in 0..(Len(ps) - 1)}
            /\ (task # NoTask /\ task.id = d /\ pc # "query") =>
                  new_passage_ids = [k \in 1..Len(ps) |-> ps[k].id]

\* a document whose first block is filtered out has yielded three passages
C16_Witness ==
    /\ DocumentYielded
    /\ Len(PassageStream(task.id)) = 3
    /\ PassageStream(task.id)[1].fields.text_block_id = 2
    /\ PassageStream(task.id)[3].id = <<task.id, 2>>

\* the positions before i of the yielded stream that hold a family record
FamiliesBefore(i) ==
    {j \in 1..(i - 1) : yielded[j].schema = FAMILY_DOCUMENT_SCHEMA}

\* the last of them
LastFamilyBefore(i) ==
    yielded[CHOOSE j \in FamiliesBefore(i) : \A m \in FamiliesBefore(i) : m <= j]

\* C17: every family record and every passage record of the stream
\* references the single ranking-weights record yielded at the start, and
\* every passage record references the family record yielded most recently
\* before it, which is the family record of its own document.
C17_RecordsReferenceWeightsAndFamily ==
    \A i \in 1..Len(yielded) :
        LET r == yielded[i]
        IN  /\ r.schema \in {FAMILY_DOCUMENT_SCHEMA, DOCUMENT_PASSAGE_SCHEMA} =>
                  /\ WeightsPositions = {1}
                  /\ r.fields.search_weights_ref = yielded[1].id
            /\ r.schema = DOCUMENT_PASSAGE_SCHEMA =>
                  /\ FamiliesBefore(i) # {}
                  /\ LastFamilyBefore(i).id = <<r.fields.family_document_ref>>
                  /\ LastFamilyBefore(i).fields.document_import_id = r.id[1]

\* the stream of an exhausted generator holds passages of two documents, the
\* passages of the second after both family records
C17_Witness ==
    /\ GeneratorExhausted
    /\ Len(paths) = 2
    /\ \A d \in Docs : Len(PassageStream(d)) >= 1
    /\ yielded[Len(yielded)].schema = DOCUMENT_PASSAGE_SCHEMA
    /\ Cardinality(FamiliesBefore(Len(yielded))) = 2

\* the index as the run before the current one left it
IndexBefore == history[run - 1].index

\* the current run follows a successful one and its input is one document
RunOverOneDocument == run >= 2 /\ history[run - 1].ok /\ Len(paths) = 1

\* C18: a run whose input contains only document D leaves unchanged what
\* does not belong to D: the family record and the passages of every other
\* document are as before the run, and the ranking-weights record has the
\* same value.
C18_RunOverOneDocumentLeavesOthers ==
    RunOverOneDocument =>
        /\ \A d \in Docs \ {paths[1]} :
              /\ index.fam[d] = IndexBefore.fam[d]
              /\ \A p \in PassageIds :
                    p[1] = d => index.psg[p] = IndexBefore.psg[p]
        /\ index.sw = IndexBefore.sw
        /\ index.sw = search_weights

\* a finished run over A alone has removed passages of A from an index
\* that holds the family record and passages of B
C18_Witness ==
    /\ RunOverOneDocument
    /\ pc = "done"
    /\ paths = <<"A">>
    /\ deleted # {}
    /\ index.fam["B"] # NoRec
    /\ \E p \in PassageIds : p[1] = "B" /\ index.psg[p] # NoRec
    /\ index # IndexBefore

\* the endpoint, or outside development mode the key or the certificate, is
\* missing or is not what the backend can be reached with
MissingOrInvalid(cfg) ==
    \/ cfg.VESPA_INSTANCE_URL # "set"
    \/ /\ ~cfg.DEVELOPMENT_MODE
       /\ ~(PathIsFile(cfg.VESPA_KEY_LOCATION) /\ PathIsFile(cfg.VESPA_CERT_LOCATION))

\* C19: when the endpoint or (outside development mode) the key or the
\* certificate is missing or invalid, populate_vespa fails with a
\* VespaConfigError before any document is read and before any query, delete
\* or feed is issued to the backend.
C19_ConfigErrorBeforeAnyDocument ==
    (MissingOrInvalid(config) /\ run >= 1) =>
        /\ pc = "aborted"
        /\ last_error.kind = "VespaConfigError"
        /\ inputs = <<>>
        /\ yielded = <<>>
        /\ sent = <<>>
        /\ deleted = {}
        /\ index = EmptyIndex

CliReturned == call.fn = "run_as_cli" /\ call.returned

\* C20: run_as_cli invoked with --index-type vespa exits with code 0 when
\* every selected document is indexed successfully, and with code 1 when
\* configuration or ingestion fails.
C20_VespaExitCode ==
    (CliReturned /\ Lower(call.args.index_type) = "vespa") =>
        IF call.args.fails
        THEN call.result.exit_code = 1
        ELSE call.result.exit_code = 0 /\ call.result.indexed = "vespa"

\* the passage IDs run w has generated
Generated(w) == Range(writers.proc[w].new_passage_ids)

BothDone == \A w \in Writers : writers.proc[w].pc = "done"

\* C21: when the two runs over the document execute one after the other, the
\* passages indexed for the document at the end are exactly those the later
\* run generated; a state in which they are the passages of neither run is
\* reached only by runs that overlap.
C21_OneWriterAtATimeIsCorrect ==
    /\ (BothDone /\ ~writers.overlapped) =>
          IndexedPassageIds(index, "A") = Generated(writers.last_done)
    /\ (BothDone /\ \A w \in Writers : IndexedPassageIds(index, "A") # Generated(w)) =>
          writers.overlapped

\* two overlapping runs have ended and the passages indexed for the document
\* are those of neither: an ID of the longer run is missing between two others
C21_Witness ==
    /\ BothDone
    /\ writers.overlapped
    /\ \A w \in Writers : IndexedPassageIds(index, "A") # Generated(w)
    /\ \E w \in Writers :
          /\ IndexedPassageIds(index, "A") \subseteq Generated(w)
          /\ Generated(w) \ IndexedPassageIds(index, "A") # {}

EncodeReturned == call.fn = "text2embeddings" /\ call.returned

\* C22: with --redo every input document is encoded again and its embeddings
\* file rewritten even when one with its ID exists in the output directory;
\* without --redo a document whose embeddings file exists is skipped.
C22_RedoEncodesEveryDocument ==
    EncodeReturned =>
        call.result.encoded =
            IF call.args.redo THEN call.args.input_ids
            ELSE call.args.input_ids \ call.args.previously

\* where the flush in progress stands, if there is one: about to be sent
\* for the first time, waiting to be sent again, or given up
FlushState ==
    IF pc \in {"flush", "final"}
    THEN IF attempt = 0 THEN "SENDING" ELSE "RETRY_WAIT"
    ELSE IF pc = "aborted" /\ attempt >= 1 THEN "ABORT"
    ELSE "NONE"

\* every record of the buffers is in the index with the buffered fields
Written(idx, tp) ==
    /\ \A r \in Range(tp[SEARCH_WEIGHTS_SCHEMA]) : idx.sw = r.fields
    /\ \A r \in Range(tp[FAMILY_DOCUMENT_SCHEMA]) : idx.fam[r.id[1]] = r.fields
    /\ \A r \in Range(tp[DOCUMENT_PASSAGE_SCHEMA]) : idx.psg[r.id] = r.fields

\* a step in which a flush succeeds
FlushSucceeds ==
    /\ pc \in {"flush", "final"}
    /\ pc' = IF pc = "flush" THEN resume ELSE "done"
    /\ attempt' = 0
    /\ Written(index', to_process)

\* C23: a flush goes from its first sending to success, or fails and waits
\* for a retry and is sent again, or fails and aborts; it ends in success or
\* abort; the buffers are cleared only by a flush that has succeeded, never
\* while it fails or waits.
C23_FlushStateMachine ==
    /\ [][/\ FlushState \in {"SENDING", "RETRY_WAIT"} =>
                \/ FlushSucceeds /\ FlushState' \in {"NONE", "SENDING"}
                \/ /\ FlushState' = "RETRY_WAIT"
                   /\ attempt' = attempt + 1
                   /\ pc' = pc
                   /\ to_process' = to_process
                \/ /\ FlushState' = "ABORT"
                   /\ attempt' = stop_after_attempt
                   /\ attempt = stop_after_attempt - 1
                   /\ to_process' = to_process
          /\ (FlushState = "NONE" /\ FlushState' # "NONE") => FlushState' = "SENDING"
          /\ FlushState = "ABORT" => FlushState' = "NONE" /\ pc' = "weights"
          /\ (to_process # EmptyBuffers /\ to_process' = EmptyBuffers) =>
                \/ FlushSucceeds /\ pc = "flush"
                \/ pc \in {"done", "aborted"} /\ pc' = "weights"]_vars
    /\ (FlushState \in {"SENDING", "RETRY_WAIT"})
          ~> (FlushState \in {"NONE", "ABORT"})

\* a flush inside the loop that waits for its retry after nine failures
C23_Witness ==
    /\ FlushState = "RETRY_WAIT"
    /\ pc = "flush"
    /\ attempt = stop_after_attempt - 1
    /\ to_process[DOCUMENT_PASSAGE_SCHEMA] # <<>>

\* a step in which an attempt of the flush fails
AttemptFails == pc \in {"flush", "final"} /\ attempt' = attempt + 1

\* C24: a retried flush sends the whole buffered batch of every schema again,
\* and what a failed attempt has written does not change what the flush
\* leaves when it succeeds: the index after failures and a success is the
\* index after a success at the first attempt.
C24_RetriedFlushIsIdempotent ==
    [][/\ AttemptFails =>
             /\ to_process' = to_process
             /\ FeedFrom(index', to_process, 1) = FeedFrom(index, to_process, 1)
       /\ FlushSucceeds =>
             /\ index' = FeedFrom(index, to_process, 1)
             /\ Written(index', to_process)]_vars

\* a flush that has failed twice, each time part-way: one passage of the
\* batch is written, another is not, and the weights are buffered with them
C24_Witness ==
    /\ pc \in {"flush", "final"}
    /\ attempt = 2
    /\ to_process[SEARCH_WEIGHTS_SCHEMA] # <<>>
    /\ \E r \in Range(to_process[DOCUMENT_PASSAGE_SCHEMA]) : index.psg[r.id] = r.fields
    /\ \E r \in Range(to_process[DOCUMENT_PASSAGE_SCHEMA]) : index.psg[r.id] = NoRec

QueryCalled == call.fn = "get_existing_passage_ids"

\* the requests of the query so far: the offset and the number of hits of each
Pages == call.result.pages

\* C25: for every total the backend reports the paginated query terminates;
\* it goes on exactly while the hits received plus the offset fall short of
\* the total, and it issues more than one request whenever the first page
\* does not cover the total.
C25_PaginationTerminates ==
    /\ [](QueryCalled =>
            /\ \A i \in 1..Len(Pages) : Pages[i].offset = (i - 1) * max_hits
            /\ Len(Pages) >= 2 => (Len(Pages) - 2) * max_hits < call.args.total
            /\ \A i \in 1..Len(Pages) :
                  (i < Len(Pages) \/ ~call.returned) =>
                      Pages[i].hits + Pages[i].offset < call.args.total
            /\ call.returned =>
                  /\ Pages[Len(Pages)].hits + Pages[Len(Pages)].offset >= call.args.total
                  /\ Pages[1].hits < call.args.total => Len(Pages) > 1)
    /\ QueryCalled ~> (QueryCalled /\ call.returned)

\* a query over five matches has returned after three requests
C25_Witness ==
    /\ QueryCalled
    /\ call.returned
    /\ call.args.total = 2 * max_hits + 1
    /\ Len(Pages) = 3
    /\ Pages[3].hits = 1

\* where the generator stands: during a flush inside the loop, where it resumes
GeneratorAt == IF pc = "flush" THEN resume ELSE pc

\* C26: documents are processed one after another in input order; for each
\* the family record is yielded, then the existing passage IDs are queried,
\* then the passages are yielded, then the strays are computed and deleted;
\* the next document is not read before the deletion has finished.
C26_DocumentStepsInOrder ==
    /\ [](/\ Len(inputs) = path_idx
          /\ path_idx <= Len(paths)
          /\ \A i \in 1..Len(inputs) : inputs[i].id = paths[i]
          /\ GeneratorAt = "query" =>
                /\ yielded[Len(yielded)].schema = FAMILY_DOCUMENT_SCHEMA
                /\ yielded[Len(yielded)].id = <<task.id>>
                /\ PassageStream(task.id) = <<>>
          /\ GeneratorAt \in {"weights", "doc", "query", "final", "done"} =>
                stray_ids = {}
          /\ GeneratorAt \in {"query", "passage", "remove"} =>
                task.id = paths[path_idx])
    /\ [][/\ GeneratorAt = "doc" => GeneratorAt' \in {"doc", "query", "final"}
          /\ GeneratorAt = "query" => GeneratorAt' \in {"query", "passage"}
          /\ GeneratorAt = "passage" =>
                /\ GeneratorAt' \in {"passage", "remove", "doc", "aborted"}
                /\ GeneratorAt' = "doc" =>
                      determine_stray_ids(existing_doc_passage_ids, new_passage_ids) = {}
                /\ GeneratorAt' \in {"remove", "doc"} =>
                      Len(new_passage_ids) = PassageCount(text_blocks, embeddings)
          /\ GeneratorAt = "remove" => GeneratorAt' \in {"remove", "doc", "aborted"}
          /\ path_idx' # path_idx =>
                \/ GeneratorAt = "doc" /\ path_idx' = path_idx + 1 /\ stray_ids = {}
                \/ GeneratorAt' = "weights" /\ path_idx' = 0
          /\ yielded' # yielded /\ GeneratorAt' # "weights" =>
                GeneratorAt \in {"weights", "doc", "passage"}]_vars

\* the second document of a run has been read and queried and has yielded a
\* passage, after two strays of the first document were deleted
C26_Witness ==
    /\ pc = "passage"
    /\ path_idx = 2
    /\ Cardinality({p \in deleted : p[1] = paths[1]}) = 2
    /\ Len(PassageStream(paths[2])) = 1
    /\ Len(PassageStream(paths[1])) >= 1

\* C27: in any flush the number of records sent for each schema is at most
\* the configured batch size, whatever the input.
C27_EveryFlushIsBounded ==
    pc \in {"flush", "final"} =>
        \A s \in Range(_SCHEMAS_TO_PROCESS) :
            Len(to_process[s]) <= config.VESPA_DOCUMENT_BATCH_SIZE

\* every record of the index finds the records it references in the index
ReferencesResolved(idx) ==
    /\ \A p \in PassageIds :
          idx.psg[p] # NoRec =>
              /\ idx.fam[idx.psg[p].family_document_ref] # NoRec
              /\ idx.sw # NoRec
    /\ \A d \in Docs : idx.fam[d] # NoRec => idx.sw # NoRec

\* C28: no record is sent to the backend before the records it references:
\* the schemas are fed in the order search_weights, family_document,
\* document_passage in every attempt, and a passage is fed only when its
\* family record and the weights have been fed in the same or an earlier flush.
C28_ReferencedRecordsFedFirst ==
    /\ ReferencesResolved(index)
    /\ _SCHEMAS_TO_PROCESS[1] = SEARCH_WEIGHTS_SCHEMA
    /\ _SCHEMAS_TO_PROCESS[Len(_SCHEMAS_TO_PROCESS)] = DOCUMENT_PASSAGE_SCHEMA
    /\ \A i \in 1..Len(sent) :
          /\ sent[i].schema # SEARCH_WEIGHTS_SCHEMA =>
                \E j \in 1..(i - 1) : sent[j].schema = SEARCH_WEIGHTS_SCHEMA
          /\ sent[i].schema = DOCUMENT_PASSAGE_SCHEMA =>
                \E j \in 1..(i - 1) :
                    /\ sent[j].schema = FAMILY_DOCUMENT_SCHEMA
                    /\ sent[j].id = <<sent[i].id[1]>>

\* the final flush holds a passage whose family record went with an earlier
\* flush, and has failed once with the passage unwritten
C28_Witness ==
    /\ pc = "final"
    /\ attempt = 1
    /\ to_process[FAMILY_DOCUMENT_SCHEMA] = <<>>
    /\ \E r \in Range(to_process[DOCUMENT_PASSAGE_SCHEMA]) :
          /\ index.psg[r.id] = NoRec
          /\ index.fam[r.id[1]] # NoRec

\* the strays of the current document are being deleted, and `last` is the
\* last of the passages generated for it
DeletingStraysAfter(last) ==
    /\ pc = "remove"
    /\ new_passage_ids # <<>>
    /\ last = new_passage_ids[Len(new_passage_ids)]

\* C29, as stated: the strays of a document are deleted before the flush
\* that writes the last of its new passages, which is then still buffered.
C29_StraysDeletedBeforeLastFlush ==
    \A last \in PassageIds :
        DeletingStraysAfter(last) =>
            /\ last \in Ids(to_process[DOCUMENT_PASSAGE_SCHEMA])
            /\ last \notin Ids(sent)

\* C29: the strays of a document are deleted after the last of its new
\* passages has been yielded; the passage is then still buffered, or it filled
\* the batch and its flush has already succeeded. The passages deleted in a
\* run stay out of the index, also when a later flush ends in ABORT.
C29_StraysDeletedAfterLastPassage ==
    /\ pc = "remove" =>
          Len(new_passage_ids) = PassageCount(text_blocks, embeddings)
    /\ \A last \in PassageIds :
          DeletingStraysAfter(last) =>
              \/ last \in Ids(to_process[DOCUMENT_PASSAGE_SCHEMA])
              \/ /\ last \in Ids(sent)
                 /\ index.psg[last] # NoRec
    /\ \A id \in deleted : index.psg[id] = NoRec

\* the run is aborted after the last attempt of a flush, with strays deleted
\* and a new passage unwritten
C29_Witness ==
    /\ pc = "aborted"
    /\ attempt = stop_after_attempt
    /\ deleted # {}
    /\ \E r \in Range(to_process[DOCUMENT_PASSAGE_SCHEMA]) : index.psg[r.id] = NoRec

\* the requests of an operation: ConnectionTimeouts, at most five, and after
\* fewer than five of them one answer more, with which the operation ends
TriedAsSpecified(answers, ended) ==
    /\ Len(answers) <= 5
    /\ \A j \in 1..(Len(answers) - 1) : answers[j] = "ConnectionTimeout"
    /\ ~ended => \A j \in 1..Len(answers) : answers[j] = "ConnectionTimeout"

\* C30: delete_index and create_index try at most 5 times, stop at the first
\* success, retry only after a ConnectionTimeout, raise RuntimeError after the
\* fifth timeout and let any other exception through at once; no index is
\* created or loaded unless every index has been deleted.
C30_DeleteAndCreateRetryFiveTimes ==
    call.fn = "populate_opensearch" =>
        LET st == call.result
            last == st.last
            final == last.answers[Len(last.answers)]
        IN  /\ TriedAsSpecified(st.answers, FALSE)
            /\ st.attempt_count = Len(st.answers)
            /\ last.op \in {"delete", "create"} =>
                  /\ TriedAsSpecified(last.answers, TRUE)
                  /\ last.result = "ok" <=> final = "ok"
                  /\ last.result = "error" <=> final = "error"
                  /\ last.result = "RuntimeError" <=>
                        (Len(last.answers) = 5 /\ final = "ConnectionTimeout")
            /\ (st.created # {} \/ st.loaded # {}) =>
                  st.deleted = 1..Len(call.args.indices)
            /\ st.loaded \subseteq st.created
            /\ (st.op = "raised" /\ last.op = "delete") =>
                  (call.returned /\ st.created = {} /\ st.loaded = {})

\* the delete of the second index has timed out five times, and nothing has
\* been created
C30_Witness ==
    /\ call.fn = "populate_opensearch"
    /\ call.result.op = "raised"
    /\ call.result.last.op = "delete"
    /\ call.result.last.i = 2
    /\ call.result.last.result = "RuntimeError"
    /\ call.result.last.answers = [j \in 1..5 |-> "ConnectionTimeout"]
    /\ call.result.deleted = {1}
    /\ call.result.created = {}

====
